---- MODULE Spec2Model ----
\* Verification model of bin/circlevis.py (SpliceV): intron rescaling and
\* coordinate transform, junction / backsplice extraction, the per-sample
\* loop of main(), and the label collision layout.
EXTENDS Integers, Sequences, FiniteSets, TLC

VARIABLES
  exon_coordinates,  \* the exon list of the transcript, ascending
  factor,            \* args.intron_scale
  scaled_coords,     \* scale_introns(exon_coordinates, factor)
  tquery,            \* the coordinate handed to transform
  tresult,           \* what transform returned
  pcS                \* position of the rescaling run

scaleVars == <<exon_coordinates, factor, scaled_coords, tquery, tresult, pcS>>

VARIABLES
  boxes,     \* the label boxes of one plot, in the order of the texts
  subtract,  \* TRUE: plot_circles (labels pushed down), FALSE: plot_SJ_curves
  indexa,    \* outer index of the pair loop
  indexb,    \* inner index of the pair loop
  ylim,      \* <<ymin, ymax>> of the current axes
  pcL        \* position of the layout

layoutVars == <<boxes, subtract, indexa, indexb, ylim, pcL>>

VARIABLES
  chromosome,         \* contig of the gene, as the GTF names it
  new_strand,         \* strand handed to the extractors, NoStrand for None
  rev,                \* reverse-protocol flag
  min_junctions,      \* args.filter
  reduce_canonical,   \* args.reduce_canonical
  reduce_backsplice,  \* args.reduce_backsplice
  bams,               \* the alignment files of args.bam, in order
  canonical,          \* canonical junction events of the current sample
  circle,             \* backsplice junction events of the current sample
  samples,            \* the samples appended so far
  strandedReads,      \* stranded: the reads the strand predicate lets through
  pcM                 \* position of main / of the extraction run

runVars == <<chromosome, new_strand, rev, min_junctions, reduce_canonical,
             reduce_backsplice, bams, canonical, circle, samples, strandedReads,
             pcM>>

vars == <<scaleVars, layoutVars, runVars>>

\* ---------------------------------------------------------------------
\* Python numbers.
\* A number is a record [isf, n]: isf tells a float from an int, n is the
\* value counted in units of 2^-FracBits.  An int is exact (Python ints are
\* unbounded).  A float is a binary floating-point value with a significand
\* of Prec bits and least exponent -FracBits, every operation rounding to
\* nearest, ties to even, as IEEE-754 does; binary64 is the same format with
\* a 53-bit significand.
\* ---------------------------------------------------------------------
Prec == 12
FracBits == 6

Unit == 2^FracBits

Abs(x) == IF x < 0 THEN -x ELSE x

Min(S) == CHOOSE x \in S : \A y \in S : x <= y

Max(S) == CHOOSE x \in S : \A y \in S : y <= x

\* nearest integer to p/q (p >= 0, q > 0), ties to even
RoundHalfEven(p, q) ==
  LET fl == p \div q
      rem == p - fl * q
  IN  IF 2 * rem < q THEN fl
      ELSE IF 2 * rem > q THEN fl + 1
      ELSE IF fl % 2 = 0 THEN fl ELSE fl + 1

\* number of low bits a magnitude of m units loses to fit the significand
RECURSIVE Shift(_)
Shift(m) == IF m < 2^Prec THEN 0 ELSE 1 + Shift(m \div 2)

\* the float nearest to p/q units (q > 0)
RoundRat(p, q) ==
  LET a == Abs(p)
      k == Shift(a \div q)
      m == RoundHalfEven(a, q * 2^k) * 2^k
  IN  IF p < 0 THEN -m ELSE m

PyInt(v) == [isf |-> FALSE, n |-> v * Unit]

PyFloat(u) == [isf |-> TRUE, n |-> RoundRat(u, 1)]

\* float(x): the units of x as a float
ToFloat(x) == IF x.isf THEN x.n ELSE RoundRat(x.n, 1)

\* x + y
Add(x, y) ==
  IF ~x.isf /\ ~y.isf THEN [isf |-> FALSE, n |-> x.n + y.n]
  ELSE [isf |-> TRUE, n |-> RoundRat(ToFloat(x) + ToFloat(y), 1)]

\* x - y
Sub(x, y) ==
  IF ~x.isf /\ ~y.isf THEN [isf |-> FALSE, n |-> x.n - y.n]
  ELSE [isf |-> TRUE, n |-> RoundRat(ToFloat(x) - ToFloat(y), 1)]

\* x * y, x an int
Mul(x, y) ==
  IF ~y.isf THEN [isf |-> FALSE, n |-> (x.n \div Unit) * y.n]
  ELSE [isf |-> TRUE, n |-> RoundRat((ToFloat(x) \div Unit) * y.n, 1)]

\* x / y (true division, always a float), y # 0
TrueDiv(x, y) ==
  LET s == IF y.n < 0 THEN -1 ELSE 1
  IN  IF ~y.isf
      THEN [isf |-> TRUE,
            n |-> RoundRat(s * x.n, Abs(y.n) \div Unit)]
      ELSE [isf |-> TRUE, n |-> RoundRat(s * ToFloat(x) * Unit, Abs(y.n))]

\* ---------------------------------------------------------------------
\* Coordinate rescaling
\* ---------------------------------------------------------------------
\* the loop with each gap laid after the original, not the rescaled, stop
RECURSIVE scale_loop_mut(_, _, _, _)
scale_loop_mut(coords, scaling_factor, newcoords, i) ==
  IF i > Len(coords) THEN newcoords
  ELSE LET length == Sub(coords[i][2], coords[i][1])
           intron == TrueDiv(Sub(coords[i][1], coords[i - 1][2]), scaling_factor)
           left == Add(coords[i - 1][2], intron)
           right == Add(left, length)
       IN  scale_loop_mut(coords, scaling_factor, Append(newcoords, <<left, right>>), i + 1)

RECURSIVE scale_loop(_, _, _, _)
scale_loop(coords, scaling_factor, newcoords, i) ==
  IF i > Len(coords) THEN newcoords
  ELSE LET length == Sub(coords[i][2], coords[i][1])
           exonEnd == coords[i - 1][2]
           nextExonStart == coords[i][1]
           intron == TrueDiv(Sub(nextExonStart, exonEnd), scaling_factor)
           left == Add(newcoords[i - 1][2], intron)
           right == Add(left, length)
       IN  scale_loop(coords, scaling_factor, Append(newcoords, <<left, right>>), i + 1)

scale_introns(coords, scaling_factor) ==
  IF scaling_factor.n <= 0 THEN coords
  ELSE scale_loop(coords, scaling_factor, <<coords[1]>>, 2)

\* [i for j in l for i in j]
Flatten(l) == [k \in 1..(2 * Len(l)) |-> l[(k + 1) \div 2][IF k % 2 = 1 THEN 1 ELSE 2]]

\* the index at which the bracketing loop of transform stops (1-based)
Bracket(orig_c, query) ==
  LET hits == {i \in 1..(Len(orig_c) - 1) :
                 orig_c[i].n <= query.n /\ query.n <= orig_c[i + 1].n}
  IN  IF hits = {} THEN Len(orig_c) - 1 ELSE Min(hits)

transform(original, scaled, query) ==
  LET orig_c == Flatten(original)
      scal_c == Flatten(scaled)
      i == Bracket(orig_c, query)
      left == orig_c[i]
      right == orig_c[i + 1]
      n_left == scal_c[i]
      n_right == IF Len(scal_c) > i + 1 THEN scal_c[i + 1] ELSE query
      n_range == Sub(n_right, n_left)
      o_range == Sub(right, left)
  IN  IF o_range.n = 0 THEN n_left
      ELSE Add(TrueDiv(Mul(Sub(query, left), n_range), o_range), n_left)

scale_coords(oldranges, newranges, coords) ==
  [k \in 1..Len(coords) |->
     <<transform(oldranges, newranges, coords[k][1]),
       transform(oldranges, newranges, coords[k][2]),
       coords[k][3]>>]

\* ---------------------------------------------------------------------
\* Inputs of the rescaling runs
\* ---------------------------------------------------------------------
MaxExons == 3

Coords == {100, 200, 230, 500, 600, 900, 1000}

Intervals == {<<PyInt(p[1]), PyInt(p[2])>> : p \in {c \in Coords \X Coords : c[1] <= c[2]}}

\* exon lists of k exons, ascending and disjoint (closed intervals)
RECURSIVE ExonListsOf(_)
ExonListsOf(k) ==
  IF k = 1 THEN {<<p>> : p \in Intervals}
  ELSE {Append(l[1], l[2]) :
          l \in {m \in ExonListsOf(k - 1) \X Intervals : m[1][k - 1][2].n < m[2][1].n}}

ExonLists == UNION {ExonListsOf(k) : k \in 1..MaxExons}

\* -is values: 0.5, 1, 2, 3, 7, 10, and the rejected 0 and -1
Factors == {PyFloat(Unit \div 2), PyFloat(Unit), PyFloat(2 * Unit), PyFloat(3 * Unit),
            PyFloat(7 * Unit), PyFloat(10 * Unit), PyFloat(0), PyFloat(-Unit)}

Queries == {PyInt(q) : q \in Coords \cup {50, 150, 350, 550, 950, 1100}}

None == [isf |-> FALSE, n |-> -1]

ScaleIdle ==
  /\ exon_coordinates = <<>>
  /\ factor = None
  /\ scaled_coords = <<>>
  /\ tquery = None
  /\ tresult = None
  /\ pcS = "idle"

LayoutIdle ==
  /\ boxes = <<>>
  /\ subtract = FALSE
  /\ indexa = 0
  /\ indexb = 0
  /\ ylim = <<0, 0>>
  /\ pcL = "idle"

RunIdle ==
  /\ chromosome = "1"
  /\ new_strand = "None"
  /\ rev = FALSE
  /\ min_junctions = 0
  /\ reduce_canonical = None
  /\ reduce_backsplice = None
  /\ bams = <<>>
  /\ canonical = <<>>
  /\ circle = <<>>
  /\ samples = <<>>
  /\ strandedReads = <<>>
  /\ pcM = "idle"

InitScale ==
  /\ LayoutIdle
  /\ RunIdle
  /\ exon_coordinates \in ExonLists
  /\ factor \in Factors
  /\ scaled_coords = <<>>
  /\ tquery = None
  /\ tresult = None
  /\ pcS = "start"

\* scaled_coords = scale_introns(exon_coordinates, factor)
ScaleIntrons ==
  /\ pcS = "start"
  /\ scaled_coords' = scale_introns(exon_coordinates, factor)
  /\ pcS' = "scaled"
  /\ UNCHANGED <<exon_coordinates, factor, tquery, tresult, layoutVars, runVars>>

\* tresult = transform(exon_coordinates, scaled_coords, q)
Transform ==
  /\ pcS = "scaled"
  /\ \E q \in Queries :
       /\ tquery' = q
       /\ tresult' = transform(exon_coordinates, scaled_coords, q)
  /\ pcS' = "mapped"
  /\ UNCHANGED <<exon_coordinates, factor, scaled_coords, layoutVars, runVars>>

NextScale == ScaleIntrons \/ Transform

SpecScale == InitScale /\ [][NextScale]_vars

\* ---------------------------------------------------------------------
\* Properties of the rescaling
\* ---------------------------------------------------------------------
Example == <<<<PyInt(100), PyInt(200)>>, <<PyInt(500), PyInt(600)>>, <<PyInt(900), PyInt(1000)>>>>

ExampleScaled == <<<<100, 200>>, <<230, 330>>, <<360, 460>>>>

Rescaled == pcS # "start" /\ factor.n > 0

\* C1: for a sorted, disjoint exon list and a factor > 0 the rescaled list
\* has the same length, every rescaled exon has exactly the length
\* (stop - start) of the input exon at its index, and the rescaled starts
\* are strictly increasing.
C1_LengthsExactStartsIncreasing ==
  Rescaled =>
    /\ Len(scaled_coords) = Len(exon_coordinates)
    /\ \A i \in 1..Len(scaled_coords) :
         Sub(scaled_coords[i][2], scaled_coords[i][1]).n
           = Sub(exon_coordinates[i][2], exon_coordinates[i][1]).n
    /\ \A i \in 1..(Len(scaled_coords) - 1) :
         scaled_coords[i][1].n < scaled_coords[i + 1][1].n

\* C2: for a factor > 0 the first exon keeps its (start, stop) and every
\* later exon i starts at new_stop[i-1] + (orig_start[i] - orig_stop[i-1]) / f;
\* [(100,200),(500,600),(900,1000)] with factor 10 gives
\* [(100,200),(230,330),(360,460)].
C2_AnchorAndGapFormula ==
  Rescaled =>
    /\ scaled_coords[1] = exon_coordinates[1]
    /\ \A i \in 2..Len(exon_coordinates) :
         scaled_coords[i][1].n
           = Add(scaled_coords[i - 1][2],
                 TrueDiv(Sub(exon_coordinates[i][1], exon_coordinates[i - 1][2]), factor)).n
    /\ (exon_coordinates = Example /\ factor.n = 10 * Unit) =>
         [k \in 1..3 |-> <<scaled_coords[k][1].n, scaled_coords[k][2].n>>]
           = [k \in 1..3 |-> <<ExampleScaled[k][1] * Unit, ExampleScaled[k][2] * Unit>>]

C2_Witness ==
  /\ pcS = "scaled"
  /\ exon_coordinates = Example
  /\ factor.n = 10 * Unit
  /\ scaled_coords[3][1].n = 360 * Unit

\* C3: for a factor > 0 and a tquery equal to an original breakpoint (any
\* exon start or stop, the last stop included) transform returns the scaled
\* breakpoint at the same index of the flattened scaled list.
C3_RoundTrip ==
  (pcS = "mapped" /\ factor.n > 0) =>
    \A k \in 1..(2 * Len(exon_coordinates)) :
      Flatten(exon_coordinates)[k].n = tquery.n =>
        tresult.n = Flatten(scaled_coords)[k].n

\* the else branch of transform: n_right = query
fallback_taken(original, scaled, query) ==
  ~(Len(Flatten(scaled)) > Bracket(Flatten(original), query) + 1)

\* scaled_left + (query - left) * (scaled_right - scaled_left) / (right - left)
\* for the breakpoints at the indices k and k + 1
Interpolated(orig_c, scal_c, k, query) ==
  Add(TrueDiv(Mul(Sub(query, orig_c[k]), Sub(scal_c[k + 1], scal_c[k])),
              Sub(orig_c[k + 1], orig_c[k])),
      scal_c[k])

\* C11: a tquery inside a consecutive pair (left, right), left < right, of
\* the flattened original breakpoints, the pair of the last exon included,
\* is mapped to the linear interpolation between the scaled breakpoints at
\* the same two indices; the identity fallback (the query as the scaled right
\* bound) is taken only for a query beyond the last breakpoint.
C11_InterpolatesWithinPair ==
  (pcS = "mapped" /\ factor.n > 0) =>
    LET orig_c == Flatten(exon_coordinates)
        scal_c == Flatten(scaled_coords)
        k == Bracket(orig_c, tquery)
    IN  /\ (orig_c[k].n <= tquery.n /\ tquery.n <= orig_c[k + 1].n
              /\ orig_c[k].n < orig_c[k + 1].n) =>
             tresult.n = Interpolated(orig_c, scal_c, k, tquery).n
        /\ fallback_taken(exon_coordinates, scaled_coords, tquery) =>
             tquery.n > orig_c[Len(orig_c)].n

\* ---------------------------------------------------------------------
\* Alignment records and the two extractors
\* ---------------------------------------------------------------------
NoStrand == "None"

\* a CIGAR is a sequence of <<length, operation>>
RECURSIVE SumOps(_, _)
SumOps(cigar, ops) ==
  IF cigar = <<>> THEN 0
  ELSE (IF cigar[1][2] \in ops THEN cigar[1][1] ELSE 0) + SumOps(Tail(cigar), ops)

\* sum(map(int, re.findall('([0-9]+)M', cigar)))
MatchLen(cigar) == SumOps(cigar, {"M"})

\* read.reference_end: one past the last aligned reference position
reference_end(read) == read.reference_start + SumOps(read.cigar, {"M", "D", "N"})

\* the reference gaps (N operations) of an alignment that starts at pos
RECURSIVE ReadIntrons(_, _)
ReadIntrons(cigar, pos) ==
  IF cigar = <<>> THEN <<>>
  ELSE LET len == cigar[1][1]
           op == cigar[1][2]
       IN  IF op = "N" THEN <<<<pos, pos + len>>>> \o ReadIntrons(Tail(cigar), pos + len)
           ELSE IF op \in {"M", "D"} THEN ReadIntrons(Tail(cigar), pos + len)
           ELSE ReadIntrons(Tail(cigar), pos)

\* d[key] += 1 on a dict kept as the sequence of its <<key, count>> items
TallyAdd(d, key) ==
  IF \E i \in 1..Len(d) : d[i][1] = key
  THEN [i \in 1..Len(d) |-> IF d[i][1] = key THEN <<key, d[i][2] + 1>> ELSE d[i]]
  ELSE Append(d, <<key, 1>>)

RECURSIVE TallyAll(_, _)
TallyAll(d, keys) ==
  IF keys = <<>> THEN d ELSE TallyAll(TallyAdd(d, keys[1]), Tail(keys))

HasChr(contig) == contig \in {"chr1", "chr2"}

AddChr(contig) == IF contig = "1" THEN "chr1" ELSE "chr2"

StripChr(contig) == IF contig = "chr1" THEN "1" ELSE "2"

\* the reads of the region; "ValueError" is the exception that no handler
\* catches, "exit" is sys.exit
fetch(bam, contig, upstream, downstream) ==
  LET inregion == SelectSeq(bam.reads,
                    LAMBDA r : r.reference_start < downstream /\ reference_end(r) > upstream)
      ok == [status |-> "ok", reads |-> inregion]
  IN  IF contig \in bam.contigs THEN ok
      ELSE IF ~HasChr(contig)
      THEN IF AddChr(contig) \in bam.contigs THEN ok
           ELSE [status |-> "ValueError", reads |-> <<>>]
      ELSE IF StripChr(contig) \in bam.contigs THEN ok
           ELSE [status |-> "exit", reads |-> <<>>]

strand_switch(strand) == IF strand = "+" THEN "-" ELSE "+"

\* the predicate without the swap of the reverse protocol
strand_filter_mut(read, strand, rv) ==
  IF strand = NoStrand THEN TRUE
  ELSE IF strand \notin {"+", "-"} THEN TRUE
  ELSE IF read.is_read1 /\ ((strand = "+" /\ read.is_reverse)
                            \/ (strand = "-" /\ ~read.is_reverse))
       THEN FALSE
       ELSE IF read.is_read2 /\ ((strand = "+" /\ ~read.is_reverse)
                                 \/ (strand = "-" /\ read.is_reverse))
       THEN FALSE
       ELSE TRUE

strand_filter(read, strand, rv) ==
  IF strand = NoStrand THEN TRUE
  ELSE IF strand \notin {"+", "-"} THEN TRUE
  ELSE LET e == IF rv THEN strand_switch(strand) ELSE strand
       IN  IF read.is_read1 /\ ((e = "+" /\ read.is_reverse) \/ (e = "-" /\ ~read.is_reverse))
           THEN FALSE
           ELSE IF read.is_read2 /\ ((e = "+" /\ ~read.is_reverse) \/ (e = "-" /\ read.is_reverse))
           THEN FALSE
           ELSE TRUE

\* bam.find_introns: the tally of the reference gaps of the reads
RECURSIVE find_introns(_, _)
find_introns(reads, d) ==
  IF reads = <<>> THEN d
  ELSE find_introns(Tail(reads),
                    TallyAll(d, ReadIntrons(reads[1].cigar, reads[1].reference_start)))

\* the items of a tally inside the window with enough support, over-strict
FilterTally_mut(d, upstream, downstream, min_count) ==
  LET kept == SelectSeq(d, LAMBDA it : it[1][1] >= upstream /\ it[1][2] <= downstream
                                         /\ it[2] > min_count)
  IN  [k \in 1..Len(kept) |-> <<kept[k][1][1], kept[k][1][2], kept[k][2]>>]

\* the items of a tally inside the window with enough support
FilterTally(d, upstream, downstream, min_count) ==
  LET kept == SelectSeq(d, LAMBDA it : it[1][1] >= upstream /\ it[1][2] <= downstream
                                         /\ it[2] >= min_count)
  IN  [k \in 1..Len(kept) |-> <<kept[k][1][1], kept[k][1][2], kept[k][2]>>]

junctions(bam, contig, upstream, downstream, min_count, strand, rv) ==
  LET fetched == fetch(bam, contig, upstream, downstream)
      stranded == SelectSeq(fetched.reads, LAMBDA r : strand_filter(r, strand, rv))
      introns == find_introns(stranded, <<>>)
  IN  [status |-> fetched.status,
       events |-> FilterTally(introns, upstream, downstream, min_count)]

\* the key as the two positions come, unsorted
CircKey_mut(read) == <<reference_end(read) + 1, read.SA[1].pos>>

\* (donor, acceptor) of a split read
CircKey(read) ==
  <<Min({reference_end(read) + 1, read.SA[1].pos}), Max({reference_end(read) + 1, read.SA[1].pos})>>

\* the tally with the overhang test >= in place of >
RECURSIVE circ_d_mut(_, _, _, _, _)
circ_d_mut(reads, d, min_overhang, strand, rv) ==
  IF reads = <<>> THEN d
  ELSE LET read == reads[1]
           rest == Tail(reads)
       IN  IF strand_filter(read, strand, rv) /\ read.SA # <<>> /\ ~read.is_supplementary
           THEN IF read.SA[1].rname # read.reference_name
                THEN circ_d_mut(rest, d, min_overhang, strand, rv)
                ELSE IF ~(MatchLen(read.cigar) >= min_overhang
                          /\ MatchLen(read.SA[1].cigar) >= min_overhang)
                THEN circ_d_mut(rest, d, min_overhang, strand, rv)
                ELSE circ_d_mut(rest, TallyAdd(d, CircKey(read)), min_overhang, strand, rv)
           ELSE circ_d_mut(rest, d, min_overhang, strand, rv)

RECURSIVE circ_d(_, _, _, _, _)
circ_d(reads, d, min_overhang, strand, rv) ==
  IF reads = <<>> THEN d
  ELSE LET read == reads[1]
           rest == Tail(reads)
       IN  IF strand_filter(read, strand, rv) /\ read.SA # <<>> /\ ~read.is_supplementary
           THEN IF read.SA[1].rname # read.reference_name
                THEN circ_d(rest, d, min_overhang, strand, rv)
                ELSE IF ~(MatchLen(read.cigar) > min_overhang
                          /\ MatchLen(read.SA[1].cigar) > min_overhang)
                THEN circ_d(rest, d, min_overhang, strand, rv)
                ELSE circ_d(rest, TallyAdd(d, CircKey(read)), min_overhang, strand, rv)
           ELSE circ_d(rest, d, min_overhang, strand, rv)

circles(bam, contig, upstream, downstream, min_overhang, min_count, strand, rv) ==
  LET fetched == fetch(bam, contig, upstream, downstream)
  IN  [status |-> fetched.status,
       events |-> FilterTally(circ_d(fetched.reads, <<>>, min_overhang, strand, rv),
                              upstream, downstream, min_count)]

\* ---------------------------------------------------------------------
\* Alignment files of the runs.  A file is coordinate-sorted, so its reads
\* come in ascending reference_start.
\* ---------------------------------------------------------------------
MaxReads == 4

MaxSamples == 2

MinOverhang == 10

CircleMinCount == 2

Read(c, start, cigar, m1, m2, isrev, supp, sa) ==
  [reference_name |-> c, reference_start |-> start, cigar |-> cigar,
   is_read1 |-> m1, is_read2 |-> m2, is_reverse |-> isrev,
   is_supplementary |-> supp, SA |-> sa]

SATag(c, pos, cigar) == <<[rname |-> c, pos |-> pos, cigar |-> cigar]>>

\* the kinds of read of a file whose contig is named c, by reference_start:
\*  1 intron (80,120), left of the window      2, 3 intron (200,500)
\*  4 split, companion on another contig       5 split, companion overhang 10
\*  6 split, primary overhang 10               7 intron (600,900)
\*  8 split, end + 1 = 650, companion at 700   9 supplementary record
\* 10 split, end + 1 = 700, companion at 650  11 unspliced, unpaired
ReadKinds(c) ==
  << Read(c, 50, <<<<30, "M">>, <<40, "N">>, <<30, "M">>>>, FALSE, TRUE, FALSE, FALSE, <<>>),
     Read(c, 150, <<<<50, "M">>, <<300, "N">>, <<50, "M">>>>, TRUE, FALSE, FALSE, FALSE, <<>>),
     Read(c, 160, <<<<40, "M">>, <<300, "N">>, <<60, "M">>>>, FALSE, TRUE, TRUE, FALSE, <<>>),
     Read(c, 300, <<<<30, "M">>, <<20, "S">>>>, TRUE, FALSE, FALSE, FALSE,
          SATag("other", 700, <<<<30, "S">>, <<20, "M">>>>)),
     Read(c, 380, <<<<39, "M">>, <<10, "S">>>>, TRUE, FALSE, FALSE, FALSE,
          SATag(c, 300, <<<<39, "S">>, <<10, "M">>>>)),
     Read(c, 400, <<<<10, "M">>, <<39, "S">>>>, FALSE, TRUE, TRUE, FALSE,
          SATag(c, 300, <<<<10, "S">>, <<39, "M">>>>)),
     Read(c, 550, <<<<50, "M">>, <<300, "N">>, <<50, "M">>>>, TRUE, FALSE, TRUE, FALSE, <<>>),
     Read(c, 620, <<<<29, "M">>, <<20, "S">>>>, FALSE, TRUE, FALSE, FALSE,
          SATag(c, 700, <<<<29, "S">>, <<20, "M">>>>)),
     Read(c, 650, <<<<30, "H">>, <<19, "M">>>>, TRUE, FALSE, FALSE, TRUE,
          SATag(c, 681, <<<<30, "M">>, <<19, "S">>>>)),
     Read(c, 680, <<<<19, "M">>, <<30, "S">>>>, TRUE, FALSE, FALSE, FALSE,
          SATag(c, 650, <<<<19, "S">>, <<30, "M">>>>)),
     Read(c, 800, <<<<50, "M">>>>, FALSE, FALSE, TRUE, FALSE, <<>>) >>

NumKinds == Len(ReadKinds("1"))

\* ascending sequences of k kinds
RECURSIVE KindSeqs(_)
KindSeqs(k) ==
  IF k = 0 THEN {<<>>}
  ELSE {Append(p[1], p[2]) :
          p \in {q \in KindSeqs(k - 1) \X (1..NumKinds) :
                   q[1] = <<>> \/ q[1][Len(q[1])] <= q[2]}}

Bam(name, c, kinds) ==
  [name |-> name, contigs |-> {c}, reads |-> [i \in 1..Len(kinds) |-> ReadKinds(c)[kinds[i]]]]

transcript_start(coords) == Min({coords[i][1].n : i \in 1..Len(coords)}) \div Unit

transcript_stop(coords) == Max({coords[i][2].n : i \in 1..Len(coords)}) \div Unit

\* an extracted (start, stop, count) as numbers
Events(l) == [k \in 1..Len(l) |-> <<PyInt(l[k][1]), PyInt(l[k][2]), PyInt(l[k][3])>>]

InitExtract ==
  /\ LayoutIdle
  /\ exon_coordinates = <<<<PyInt(100), PyInt(200)>>, <<PyInt(500), PyInt(600)>>,
                          <<PyInt(900), PyInt(1000)>>>>
  /\ factor = None
  /\ scaled_coords = <<>>
  /\ tquery = None
  /\ tresult = None
  /\ pcS = "idle"
  /\ chromosome = "1"
  /\ new_strand \in {NoStrand, "+", "-", "."}
  /\ rev \in BOOLEAN
  /\ min_junctions \in {0, 2}
  /\ reduce_canonical = None
  /\ reduce_backsplice = None
  /\ bams \in {<<Bam("S1", "1", kinds)>> : kinds \in UNION {KindSeqs(k) : k \in 0..MaxReads}}
  /\ canonical = <<>>
  /\ circle = <<>>
  /\ samples = <<>>
  /\ strandedReads = <<>>
  /\ pcM = "extract"

\* canonical = junctions(bam, ...)
ExtractCanonical ==
  /\ pcM = "extract"
  /\ canonical' = Events(junctions(bams[1], chromosome, transcript_start(exon_coordinates),
                                   transcript_stop(exon_coordinates), min_junctions,
                                   new_strand, rev).events)
  /\ pcM' = "canonical"
  /\ UNCHANGED <<chromosome, new_strand, rev, min_junctions, reduce_canonical,
                 reduce_backsplice, bams, circle, samples, strandedReads,
                 scaleVars, layoutVars>>

\* circle = circles(bam, ...), the thresholds those of the caller
ExtractCircles ==
  /\ pcM = "canonical"
  /\ circle' = Events(circles(bams[1], chromosome, transcript_start(exon_coordinates),
                              transcript_stop(exon_coordinates), MinOverhang, min_junctions,
                              new_strand, rev).events)
  /\ pcM' = "extracted"
  /\ UNCHANGED <<chromosome, new_strand, rev, min_junctions, reduce_canonical,
                 reduce_backsplice, bams, canonical, samples, strandedReads,
                 scaleVars, layoutVars>>

NextExtract == ExtractCanonical \/ ExtractCircles

SpecExtract == InitExtract /\ [][NextExtract]_vars

\* ---------------------------------------------------------------------
\* The strand predicate on its own: the generator of junctions over the
\* fetched reads of one file, the reads of every mate and orientation
\* ---------------------------------------------------------------------
MaxStrandReads == 2

\* unspliced reads inside the window with each setting of the three flags
FlagReads ==
  {Read("1", 150, <<<<50, "M">>>>, m1, m2, isrev, FALSE, <<>>) :
     m1 \in BOOLEAN, m2 \in BOOLEAN, isrev \in BOOLEAN}

InitStrand ==
  /\ LayoutIdle
  /\ exon_coordinates = <<<<PyInt(100), PyInt(200)>>, <<PyInt(500), PyInt(600)>>>>
  /\ factor = None
  /\ scaled_coords = <<>>
  /\ tquery = None
  /\ tresult = None
  /\ pcS = "idle"
  /\ chromosome = "1"
  /\ new_strand \in {NoStrand, "+", "-", "."}
  /\ rev \in BOOLEAN
  /\ min_junctions = 0
  /\ reduce_canonical = None
  /\ reduce_backsplice = None
  /\ bams \in {<<[name |-> "S1", contigs |-> {"1"}, reads |-> reads]>> :
                 reads \in UNION {[1..k -> FlagReads] : k \in 0..MaxStrandReads}}
  /\ canonical = <<>>
  /\ circle = <<>>
  /\ samples = <<>>
  /\ strandedReads = <<>>
  /\ pcM = "fetched"

\* stranded = (read for read in fetched if strand_filter(read, strand, rev))
StrandFilter ==
  /\ pcM = "fetched"
  /\ strandedReads' =
       SelectSeq(fetch(bams[1], chromosome, transcript_start(exon_coordinates),
                       transcript_stop(exon_coordinates)).reads,
                 LAMBDA r : strand_filter(r, new_strand, rev))
  /\ pcM' = "stranded"
  /\ UNCHANGED <<chromosome, new_strand, rev, min_junctions, reduce_canonical,
                 reduce_backsplice, bams, canonical, circle, samples, scaleVars, layoutVars>>

NextStrand == StrandFilter

SpecStrand == InitStrand /\ [][NextStrand]_vars

\* ---------------------------------------------------------------------
\* main(): the rescaling of the exons, then one pass per alignment file
\* ---------------------------------------------------------------------
\* the truth value of an optional numeric argument
Truthy(x) == x # None /\ x.n # 0

\* k * f in place of k // f
FloorDiv_mut(x, y) == [isf |-> TRUE, n |-> RoundRat((x.n \div Unit) * y.n, 1)]

\* x // y for an int x >= 0 and a float y > 0: the floor of the quotient
FloorDiv(x, y) == [isf |-> TRUE, n |-> RoundRat((x.n \div y.n) * Unit, 1)]

\* the count reduction of main for one batch and its divisor
reduce_counts(batch, divisor) ==
  IF ~Truthy(divisor) THEN batch
  ELSE IF divisor.n <= 0 THEN batch
  ELSE [k \in 1..Len(batch) |-> <<batch[k][1], batch[k][2], FloorDiv(batch[k][3], divisor)>>]

\* new_strand and rev from args.stranded and the strand of the gene
StrandArgs(stranded, strand) ==
  IF stranded # "None"
  THEN <<strand, stranded = "reverse">>
  ELSE <<NoStrand, FALSE>>

BamFiles ==
  {Bam("A", "1", <<2, 2, 3, 3, 7, 8, 10>>), Bam("B", "chr1", <<2, 8>>),
   Bam("C", "2", <<2, 10>>), Bam("D", "1", <<7, 8, 8, 10>>)}

Init ==
  /\ LayoutIdle
  /\ exon_coordinates \in
       {<<<<PyInt(100), PyInt(200)>>, <<PyInt(500), PyInt(600)>>, <<PyInt(900), PyInt(1000)>>>>,
        <<<<PyInt(100), PyInt(200)>>, <<PyInt(500), PyInt(1000)>>>>}
  /\ factor \in {None, PyFloat(0), PyFloat(-Unit), PyFloat(10 * Unit)}
  /\ scaled_coords = <<>>
  /\ tquery = None
  /\ tresult = None
  /\ pcS = "idle"
  /\ chromosome \in {"1", "chr1"}
  /\ \E stranded \in {"None", "reverse"} :
       /\ new_strand = StrandArgs(stranded, "+")[1]
       /\ rev = StrandArgs(stranded, "+")[2]
  /\ min_junctions \in {0, 3}
  /\ reduce_canonical \in {None, PyFloat(2 * Unit)}
  /\ reduce_backsplice \in {None, PyFloat(2 * Unit)}
  /\ bams \in UNION {[1..k -> BamFiles] : k \in 1..MaxSamples}
  /\ canonical = <<>>
  /\ circle = <<>>
  /\ samples = <<>>
  /\ strandedReads = <<>>
  /\ pcM = "scale"

\* if args.intron_scale: scaled_coords = scale_introns(exon_coordinates, factor)
MainScale ==
  /\ pcM = "scale"
  /\ scaled_coords' = IF Truthy(factor) THEN scale_introns(exon_coordinates, factor)
                      ELSE scaled_coords
  /\ pcM' = "loop"
  /\ UNCHANGED <<exon_coordinates, factor, tquery, tresult, pcS, chromosome, new_strand, rev,
                 min_junctions, reduce_canonical, reduce_backsplice, bams, canonical, circle,
                 samples, strandedReads, layoutVars>>

\* one pass of the loop over args.bam; a failed fetch ends the process
ProcessSample ==
  /\ pcM = "loop"
  /\ Len(samples) < Len(bams)
  /\ LET bam == bams[Len(samples) + 1]
         upstream == transcript_start(exon_coordinates)
         downstream == transcript_stop(exon_coordinates)
         found == junctions(bam, chromosome, upstream, downstream, min_junctions,
                            new_strand, rev)
         back == circles(bam, chromosome, upstream, downstream, MinOverhang, CircleMinCount,
                         new_strand, rev)
         canon1 == IF Truthy(factor)
                   THEN scale_coords(exon_coordinates, scaled_coords, Events(found.events))
                   ELSE Events(found.events)
         circ1 == IF Truthy(factor)
                  THEN scale_coords(exon_coordinates, scaled_coords, Events(back.events))
                  ELSE Events(back.events)
     IN  IF found.status # "ok"
         THEN /\ pcM' = found.status
              /\ UNCHANGED <<canonical, circle, samples>>
         ELSE /\ canonical' = reduce_counts(canon1, reduce_canonical)
              /\ circle' = reduce_counts(circ1, reduce_backsplice)
              /\ samples' = Append(samples, [name |-> bam.name, canonical |-> canonical',
                                             circle |-> circle'])
              /\ pcM' = pcM
  /\ UNCHANGED <<scaleVars, chromosome, new_strand, rev, min_junctions, reduce_canonical,
                 reduce_backsplice, bams, strandedReads, layoutVars>>

\* after the loop: if args.intron_scale: exon_coordinates = scaled_coords
FinishLoop ==
  /\ pcM = "loop"
  /\ Len(samples) = Len(bams)
  /\ exon_coordinates' = IF Truthy(factor) THEN scaled_coords ELSE exon_coordinates
  /\ pcM' = "plot"
  /\ UNCHANGED <<factor, scaled_coords, tquery, tresult, pcS, chromosome, new_strand, rev,
                 min_junctions, reduce_canonical, reduce_backsplice, bams, canonical, circle,
                 samples, strandedReads, layoutVars>>

Next == MainScale \/ ProcessSample \/ FinishLoop

Spec == Init /\ [][Next]_vars

\* ---------------------------------------------------------------------
\* The rescaling of the junctions of one sample on its own
\* ---------------------------------------------------------------------
\* junction ends: exon boundaries and positions inside exons and introns
Ends0 == {100, 150, 200, 350, 550, 600}

\* extracted (start, stop, count) lists, start <= stop: one event, or one
\* event before the junction of the first intron
JunctionLists ==
  LET one == {<<PyInt(e[1]), PyInt(e[2]), PyInt(3)>> : e \in {d \in Ends0 \X Ends0 : d[1] <= d[2]}}
  IN  {<<>>} \cup {<<e>> : e \in one}
        \cup {<<e, <<PyInt(200), PyInt(500), PyInt(1)>>>> : e \in one}

InitCoords ==
  /\ LayoutIdle
  /\ exon_coordinates \in ExonLists
  /\ factor \in {PyFloat(Unit \div 2), PyFloat(2 * Unit), PyFloat(10 * Unit)}
  /\ scaled_coords = <<>>
  /\ tquery = None
  /\ tresult = None
  /\ pcS = "idle"
  /\ chromosome = "1"
  /\ new_strand = NoStrand
  /\ rev = FALSE
  /\ min_junctions = 0
  /\ reduce_canonical = None
  /\ reduce_backsplice = None
  /\ bams = <<>>
  /\ canonical \in JunctionLists
  /\ circle = canonical
  /\ samples = <<>>
  /\ strandedReads = <<>>
  /\ pcM = "scale"

\* if args.intron_scale: canonical = scale_coords(...); circle = scale_coords(...)
ScaleJunctions ==
  /\ pcM = "loop"
  /\ bams = <<>>
  /\ canonical' = IF Truthy(factor)
                  THEN scale_coords(exon_coordinates, scaled_coords, canonical)
                  ELSE canonical
  /\ circle' = IF Truthy(factor)
               THEN scale_coords(exon_coordinates, scaled_coords, circle)
               ELSE circle
  /\ pcM' = "rescaled"
  /\ UNCHANGED <<scaleVars, chromosome, new_strand, rev, min_junctions, reduce_canonical,
                 reduce_backsplice, bams, samples, strandedReads, layoutVars>>

NextCoords == MainScale \/ ScaleJunctions

SpecCoords == InitCoords /\ [][NextCoords]_vars

\* ---------------------------------------------------------------------
\* The count reduction on its own: one batch reduced by two divisors
\* ---------------------------------------------------------------------
MaxCount == 5

Batches ==
  LET ev == {<<>>} \cup {<<<<PyInt(200), PyInt(500), PyInt(c)>>>> : c \in 0..MaxCount}
      ev2 == {<<>>} \cup {<<<<PyInt(650), PyInt(700), PyInt(c)>>>> : c \in 0..MaxCount}
  IN  {p[1] \o p[2] : p \in ev \X ev2}

Divisors == {None, PyFloat(0), PyFloat(-Unit), PyFloat(Unit \div 2), PyFloat(Unit),
             PyFloat(Unit + Unit \div 2), PyFloat(2 * Unit), PyFloat(3 * Unit)}

InitReduce ==
  /\ LayoutIdle
  /\ ScaleIdle
  /\ chromosome = "1"
  /\ new_strand = NoStrand
  /\ rev = FALSE
  /\ min_junctions = 0
  /\ reduce_canonical \in Divisors
  /\ reduce_backsplice \in Divisors
  /\ bams = <<>>
  /\ canonical \in Batches
  /\ circle = canonical
  /\ samples = <<>>
  /\ strandedReads = <<>>
  /\ pcM = "reduce"

\* the two reductions of main
ReduceCounts ==
  /\ pcM = "reduce"
  /\ canonical' = reduce_counts(canonical, reduce_canonical)
  /\ circle' = reduce_counts(circle, reduce_backsplice)
  /\ pcM' = "reduced"
  /\ UNCHANGED <<chromosome, new_strand, rev, min_junctions, reduce_canonical,
                 reduce_backsplice, bams, samples, strandedReads,
                 scaleVars, layoutVars>>

NextReduce == ReduceCounts

SpecReduce == InitReduce /\ [][NextReduce]_vars

\* ---------------------------------------------------------------------
\* Label layout.  Lengths are whole numbers of a grid: 1 y-unit is 0.005
\* data units (the nudge of .02 is YStep), and box widths are multiples of
\* 40 x-units, so that xextra / 10 is a whole number of x-units.
\* ---------------------------------------------------------------------
YStep == 4

YMin0 == -300

YMax0 == 600

Box(x0, x1, y0, y1) == [x0 |-> x0, x1 |-> x1, y0 |-> y0, y1 |-> y1]

\* the test of intersect: an x edge and a y edge of boxb inside boxa widened
\* by a quarter of its width and height (all terms times 4)
Collides(boxa, boxb) ==
  LET xextra4 == boxa.x1 - boxa.x0
      yextra4 == boxa.y1 - boxa.y0
      inx(v) == 4 * boxa.x0 - xextra4 <= 4 * v /\ 4 * v <= 4 * boxa.x1 + xextra4
      iny(v) == 4 * boxa.y0 - yextra4 <= 4 * v /\ 4 * v <= 4 * boxa.y1 + yextra4
  IN  /\ inx(boxb.x0) \/ inx(boxb.x1)
      /\ iny(boxb.y0) \/ iny(boxb.y1)

\* a nudge that moves boxb back and forth: up with one coin, down with the other
Nudged_mut(boxa, boxb, sub, coin) ==
  LET dy == IF coin = 1 THEN YStep ELSE -YStep
      jit == (boxa.x1 - boxa.x0) \div 40
      dx == IF coin = 1 THEN jit ELSE -jit
  IN  Box(boxb.x0 + dx, boxb.x1 + dx, boxb.y0 + dy, boxb.y1 + dy)

\* boxb after one nudge; coin is the value of random.randint(2)
Nudged(boxa, boxb, sub, coin) ==
  LET dy == IF sub THEN -YStep ELSE YStep
      jit == (boxa.x1 - boxa.x0) \div 40
      dx == IF coin = 1 THEN jit ELSE -jit
  IN  Box(boxb.x0 + dx, boxb.x1 + dx, boxb.y0 + dy, boxb.y1 + dy)

\* the pair the double loop visits after (a, b), <<n + 1, 1>> when none is left
RECURSIVE NextPair(_, _, _)
NextPair(a, b, n) ==
  IF a > n THEN <<n + 1, 1>>
  ELSE IF b >= n THEN NextPair(a + 1, 0, n)
  ELSE IF b + 1 # a THEN <<a, b + 1>>
  ELSE NextPair(a, b + 1, n)

MaxBoxes == 3

\* measured label boxes (x0, width, y0 offset), all inside the viewport: at
\* its top for the labels pushed up, at its bottom for those pushed down
LabelBoxes(sub) ==
  {Box(p[1], p[1] + p[2], (IF sub THEN YMin0 ELSE YMax0 - 12) + p[3],
       (IF sub THEN YMin0 ELSE YMax0 - 12) + p[3] + 8) :
     p \in {<<0, 40, 0>>, <<20, 40, 0>>, <<0, 80, 0>>, <<0, 40, 4>>, <<20, 40, 4>>, <<0, 80, 4>>}}

InitLayout ==
  /\ ScaleIdle
  /\ RunIdle
  /\ subtract \in BOOLEAN
  /\ boxes \in UNION {[1..k -> LabelBoxes(subtract)] : k \in 0..MaxBoxes}
  /\ indexa = 0
  /\ indexb = 0
  /\ ylim = <<YMin0, YMax0>>
  /\ pcL = "texts"

\* the boxes measured from the texts; the pair loop starts
LayoutStart ==
  /\ pcL = "texts"
  /\ indexa' = NextPair(1, 0, Len(boxes))[1]
  /\ indexb' = NextPair(1, 0, Len(boxes))[2]
  /\ pcL' = IF NextPair(1, 0, Len(boxes))[1] > Len(boxes) THEN "finish" ELSE "pairs"
  /\ UNCHANGED <<boxes, subtract, ylim, scaleVars, runVars>>

\* intersect finds a collision: boxb is nudged and intersect calls itself
Nudge ==
  /\ pcL = "pairs"
  /\ Collides(boxes[indexa], boxes[indexb])
  /\ \E coin \in {0, 1} :
       boxes' = [boxes EXCEPT ![indexb] = Nudged(boxes[indexa], boxes[indexb], subtract, coin)]
  /\ UNCHANGED <<subtract, indexa, indexb, ylim, pcL, scaleVars, runVars>>

\* intersect finds no collision: it raises ymax to boxb.y1 and returns boxb
IntersectReturn ==
  /\ pcL = "pairs"
  /\ ~Collides(boxes[indexa], boxes[indexb])
  /\ ylim' = <<ylim[1], Max({ylim[2], boxes[indexb].y1})>>
  /\ LET nxt == NextPair(indexa, indexb, Len(boxes))
     IN  /\ indexa' = nxt[1]
         /\ indexb' = nxt[2]
         /\ pcL' = IF nxt[1] > Len(boxes) THEN "finish" ELSE "pairs"
  /\ UNCHANGED <<boxes, subtract, scaleVars, runVars>>

\* the last statement of plot_SJ_curves / plot_circles; max() and min() of
\* no boxes raise ValueError
SetLimits ==
  /\ pcL = "finish"
  /\ IF boxes = <<>>
     THEN pcL' = "error" /\ UNCHANGED ylim
     ELSE /\ pcL' = "done"
          /\ ylim' = IF subtract
                     THEN <<Min({ylim[1]} \cup {boxes[k].y0 : k \in 1..Len(boxes)}), ylim[2]>>
                     ELSE <<ylim[1], Max({ylim[2]} \cup {boxes[k].y1 : k \in 1..Len(boxes)})>>
  /\ UNCHANGED <<boxes, subtract, indexa, indexb, scaleVars, runVars>>

NextLayout == LayoutStart \/ Nudge \/ IntersectReturn \/ SetLimits

SpecLayout == InitLayout /\ [][NextLayout]_vars

\* ---------------------------------------------------------------------
\* The layout of two labels: intersect(boxes[1], boxes[2]) and then
\* intersect(boxes[2], boxes[1]), the boxes of more positions and widths
\* ---------------------------------------------------------------------
MaxRows == 2

\* label boxes on rows half a nudge apart, inside the viewport
PairLabels(sub) ==
  {Box(p[1], p[1] + p[2], (IF sub THEN YMin0 ELSE YMax0 - 16) + p[3] * (YStep \div 2),
       (IF sub THEN YMin0 ELSE YMax0 - 16) + p[3] * (YStep \div 2) + 2 * YStep) :
     p \in {0, 20} \X {40, 80} \X (0..MaxRows)}

InitPair ==
  /\ ScaleIdle
  /\ RunIdle
  /\ subtract \in BOOLEAN
  /\ boxes \in [1..2 -> PairLabels(subtract)]
  /\ indexa = 0
  /\ indexb = 0
  /\ ylim = <<YMin0, YMax0>>
  /\ pcL = "texts"

SpecPair == InitPair /\ [][NextLayout]_vars

\* the interpreter runs every statement it reaches: a step that can be taken
\* is taken
SpecPairFair == SpecPair /\ WF_vars(NextLayout)

\* ---------------------------------------------------------------------
\* Properties of the label layout
\* ---------------------------------------------------------------------
\* C4: once the pass over all ordered pairs has finished, the test of
\* intersect reports no collision for any pair of distinct boxes.
C4_NoCollisionAfterLayout ==
  pcL \in {"finish", "done"} =>
    \A a \in 1..Len(boxes), b \in 1..Len(boxes) :
      a # b => ~Collides(boxes[a], boxes[b])

\* intersect(boxes[a], boxes[b], subtract) is running
InCall(a, b) == pcL = "pairs" /\ indexa = a /\ indexb = b

\* the edge of boxb that leaves the tolerance band of boxa last is still
\* inside it (all terms times 4)
StillInBand(boxa, boxb, sub) ==
  IF sub THEN 4 * boxb.y1 >= 4 * boxa.y0 - (boxa.y1 - boxa.y0)
  ELSE 4 * boxb.y0 <= 4 * boxa.y1 + (boxa.y1 - boxa.y0)

\* C15: the collision resolution of one pair ends for every pair of distinct
\* boxes and every sequence of jitter choices: a nudge moves boxb by the
\* fixed vertical step in the one direction and keeps its width and height,
\* boxa is not moved, and a nudge is made only while boxb has not left the
\* tolerance band of boxa, so the nudges of a call number no more than the
\* distance to travel divided by the step; each call of intersect returns.
C15_PairResolutionTerminates ==
  /\ InCall(1, 2) ~> ~InCall(1, 2)
  /\ InCall(2, 1) ~> ~InCall(2, 1)
  /\ [][(pcL = "pairs" /\ boxes' # boxes) =>
          /\ StillInBand(boxes[indexa], boxes[indexb], subtract)
          /\ \A k \in 1..Len(boxes) : k # indexb => boxes'[k] = boxes[k]
          /\ boxes'[indexb].y0 - boxes[indexb].y0 = (IF subtract THEN -YStep ELSE YStep)
          /\ boxes'[indexb].y1 - boxes'[indexb].y0 = boxes[indexb].y1 - boxes[indexb].y0
          /\ boxes'[indexb].x1 - boxes'[indexb].x0 = boxes[indexb].x1 - boxes[indexb].x0
          /\ indexa' = indexa /\ indexb' = indexb]_vars

\* a call of intersect that nudged boxb more than once has returned
C15_Witness ==
  /\ pcL = "done"
  /\ \E k \in 1..Len(boxes) :
       Abs(boxes[k].y0 - (IF subtract THEN YMin0 ELSE YMax0 - 16)) >= 3 * YStep

\* C13: for label boxes that start inside the viewport, the empty list
\* included (for which the layout completes and leaves the limits as they
\* were), the vertical limits after layout contain every final box,
\* ymin <= y0 and y1 <= ymax, for the labels pushed up and for those pushed
\* down, and no step of the layout shrinks the limits.
C13_ViewportContainsLabels ==
  /\ [](pcL # "error")
  /\ []((pcL = "done") =>
          \A k \in 1..Len(boxes) : ylim[1] <= boxes[k].y0 /\ boxes[k].y1 <= ylim[2])
  /\ []((pcL = "done" /\ boxes = <<>>) => ylim = <<YMin0, YMax0>>)
  /\ [][ylim'[1] <= ylim[1] /\ ylim[2] <= ylim'[2]]_vars

\* ---------------------------------------------------------------------
\* Properties of the extractors
\* ---------------------------------------------------------------------
Upstream == transcript_start(exon_coordinates)

Downstream == transcript_stop(exon_coordinates)

\* the reads the extractors iterate over in a file
FetchedOf(bam) == fetch(bam, chromosome, Upstream, Downstream).reads

\* a read that counts as backsplice evidence
CircQualifies(read) ==
  /\ strand_filter(read, new_strand, rev)
  /\ read.SA # <<>>
  /\ ~read.is_supplementary
  /\ read.SA[1].rname = read.reference_name
  /\ MatchLen(read.cigar) > MinOverhang
  /\ MatchLen(read.SA[1].cigar) > MinOverhang

\* number of qualifying reads that fuse the two positions, in either order
CircCountIn(reads, x, y) ==
  Cardinality({i \in 1..Len(reads) :
                 /\ CircQualifies(reads[i])
                 /\ {reference_end(reads[i]) + 1, reads[i].SA[1].pos} = {x, y}})

\* number of reference gaps (x, y) among the strand-accepted reads
IntronCountIn(reads, x, y) ==
  Cardinality({p \in (1..Len(reads)) \X (1..3) :
                 /\ strand_filter(reads[p[1]], new_strand, rev)
                 /\ LET gaps == ReadIntrons(reads[p[1]].cigar, reads[p[1]].reference_start)
                    IN  p[2] <= Len(gaps) /\ gaps[p[2]] = <<x, y>>})

\* the pairs of positions the accepted reads give evidence for
IntronKeysIn(reads) ==
  UNION {{ReadIntrons(reads[i].cigar, reads[i].reference_start)[j] :
            j \in 1..Len(ReadIntrons(reads[i].cigar, reads[i].reference_start))} :
         i \in {h \in 1..Len(reads) : strand_filter(reads[h], new_strand, rev)}}

CircKeysIn(reads) ==
  {<<Min({reference_end(reads[i]) + 1, reads[i].SA[1].pos}),
     Max({reference_end(reads[i]) + 1, reads[i].SA[1].pos})>> :
     i \in {h \in 1..Len(reads) : CircQualifies(reads[h])}}

FetchedReads == FetchedOf(bams[1])

CircCount(x, y) == CircCountIn(FetchedReads, x, y)

IntronCount(x, y) == IntronCountIn(FetchedReads, x, y)

IntronKeys == IntronKeysIn(FetchedReads)

CircKeys == CircKeysIn(FetchedReads)

Val(x) == x.n \div Unit

\* C7: every emitted circular event has start <= stop, start being the
\* lower and stop the higher of primary end + 1 and companion start; both
\* orders of a pair of positions are counted in the one event, so 700 with
\* 650 gives (650, 700, count) and never (700, 650, count).
C7_CircularStartLeStop ==
  pcM = "extracted" =>
    /\ \A k \in 1..Len(circle) :
         /\ circle[k][1].n <= circle[k][2].n
         /\ Val(circle[k][3]) = CircCount(Val(circle[k][1]), Val(circle[k][2]))
    /\ \A j \in 1..Len(circle), k \in 1..Len(circle) :
         (circle[j][1] = circle[k][1] /\ circle[j][2] = circle[k][2]) => j = k
    /\ CircCount(700, 650) >= Max({min_junctions, 1}) =>
         \E k \in 1..Len(circle) : Val(circle[k][1]) = 650 /\ Val(circle[k][2]) = 700

C7_Witness ==
  /\ pcM = "extracted"
  /\ \E k \in 1..Len(circle) :
       Val(circle[k][1]) = 650 /\ Val(circle[k][2]) = 700 /\ Val(circle[k][3]) = 2
  /\ \E i \in 1..Len(FetchedReads), j \in 1..Len(FetchedReads) :
       /\ CircQualifies(FetchedReads[i]) /\ CircQualifies(FetchedReads[j])
       /\ reference_end(FetchedReads[i]) + 1 = 700 /\ FetchedReads[i].SA[1].pos = 650
       /\ reference_end(FetchedReads[j]) + 1 = 650 /\ FetchedReads[j].SA[1].pos = 700

\* the events are exactly the counted pairs inside the window with a count
\* of at least min_count, each once
ExactlyFiltered(events, Keys, Count(_, _)) ==
  /\ \A k \in 1..Len(events) :
       /\ Val(events[k][1]) >= Upstream
       /\ Val(events[k][2]) <= Downstream
       /\ Val(events[k][3]) >= min_junctions
       /\ <<Val(events[k][1]), Val(events[k][2])>> \in Keys
       /\ Val(events[k][3]) = Count(Val(events[k][1]), Val(events[k][2]))
  /\ \A key \in Keys :
       (key[1] >= Upstream /\ key[2] <= Downstream /\ Count(key[1], key[2]) >= min_junctions) =>
         Cardinality({k \in 1..Len(events) :
                        Val(events[k][1]) = key[1] /\ Val(events[k][2]) = key[2]}) = 1

\* C8: the junction extractor and the circular detector emit exactly the
\* tallied (start, stop, count) with start >= upstream, stop <= downstream
\* and count >= min_count, each once (count 4 with min_count 2 is kept,
\* count 1 with min_count 2 is dropped).
C8_EmittedExactlyFiltered ==
  pcM = "extracted" =>
    /\ ExactlyFiltered(canonical, IntronKeys, IntronCount)
    /\ ExactlyFiltered(circle, CircKeys, CircCount)

C8_Witness ==
  /\ pcM = "extracted"
  /\ min_junctions = 2
  /\ IntronCount(200, 500) = 4
  /\ \E k \in 1..Len(canonical) :
       Val(canonical[k][1]) = 200 /\ Val(canonical[k][2]) = 500 /\ Val(canonical[k][3]) = 4

\* the effective strand: + and - swapped exactly when the flag is set
Effective(s, flag) ==
  IF flag THEN (IF s = "+" THEN "-" ELSE IF s = "-" THEN "+" ELSE s) ELSE s

\* the rejection rule for the effective strand e
Rejected(read, e) ==
  \/ read.is_read1 /\ ((e = "+" /\ read.is_reverse) \/ (e = "-" /\ ~read.is_reverse))
  \/ read.is_read2 /\ ((e = "+" /\ ~read.is_reverse) \/ (e = "-" /\ read.is_reverse))

\* C14: strand_filter accepts every read when no strand is given; with a
\* strand it rejects a read exactly when the read is mate 1 and (e = + and
\* reverse, or e = - and forward) or mate 2 and (e = + and forward, or e = -
\* and reverse), e being the strand with + and - swapped when the reverse
\* flag is set; a read that is neither mate is always accepted; and strand
\* s with the flag set filters as the opposite of s with the flag clear.
C14_StrandPredicate ==
  pcM = "stranded" =>
    LET fetched == FetchedReads
        kept(s, flag) == SelectSeq(fetched, LAMBDA r : ~Rejected(r, Effective(s, flag)))
    IN  /\ new_strand = NoStrand => strandedReads = fetched
        /\ new_strand # NoStrand => strandedReads = kept(new_strand, rev)
        /\ \A i \in 1..Len(fetched) :
             (~fetched[i].is_read1 /\ ~fetched[i].is_read2) =>
               \E j \in 1..Len(strandedReads) : strandedReads[j] = fetched[i]
        /\ (new_strand \in {"+", "-"} /\ rev) =>
             strandedReads = kept(Effective(new_strand, TRUE), FALSE)

\* reverse protocol, a gene on +: a forward mate 1 is dropped, a forward
\* mate 2 is kept
C14_Witness ==
  /\ pcM = "stranded"
  /\ new_strand = "+"
  /\ rev
  /\ Len(FetchedReads) = 2
  /\ FetchedReads[1].is_read1 /\ ~FetchedReads[1].is_read2 /\ ~FetchedReads[1].is_reverse
  /\ ~FetchedReads[2].is_read1 /\ FetchedReads[2].is_read2 /\ ~FetchedReads[2].is_reverse
  /\ strandedReads = <<FetchedReads[2]>>

\* the fetched reads that count for the pair (x, y), each condition spelled out
Evidence(x, y) ==
  {i \in 1..Len(FetchedReads) :
     LET read == FetchedReads[i]
     IN  /\ strand_filter(read, new_strand, rev)
         /\ ~read.is_supplementary
         /\ read.SA # <<>>
         /\ read.SA[1].rname = read.reference_name
         /\ MatchLen(read.cigar) > MinOverhang
         /\ MatchLen(read.SA[1].cigar) > MinOverhang
         /\ <<x, y>> = <<Min({reference_end(read) + 1, read.SA[1].pos}),
                         Max({reference_end(read) + 1, read.SA[1].pos})>>}

\* C12: the count of every circular junction (donor, acceptor) is the number
\* of fetched reads that pass the strand predicate, are not supplementary,
\* carry an SA tag naming their own contig, have more than min_overhang
\* matched bases on the primary and on the companion alignment, and give that
\* pair; a read failing one of these (other contig, supplementary, no SA tag,
\* overhang equal to min_overhang on either side) adds to no count.  With a
\* min_count of 0 the emitted events are the whole tally of the window.
C12_CountIsQualifyingReads ==
  (pcM = "extracted" /\ min_junctions = 0) =>
    /\ \A k \in 1..Len(circle) :
         /\ Val(circle[k][3]) = Cardinality(Evidence(Val(circle[k][1]), Val(circle[k][2])))
         /\ Val(circle[k][3]) >= 1
    /\ \A j \in 1..Len(circle), k \in 1..Len(circle) :
         (Val(circle[j][1]) = Val(circle[k][1]) /\ Val(circle[j][2]) = Val(circle[k][2])) => j = k
    /\ \A i \in 1..Len(FetchedReads) :
         LET read == FetchedReads[i]
             x == IF read.SA = <<>> THEN 0 ELSE Min({reference_end(read) + 1, read.SA[1].pos})
             y == IF read.SA = <<>> THEN 0 ELSE Max({reference_end(read) + 1, read.SA[1].pos})
         IN  (i \in Evidence(x, y) /\ x >= Upstream /\ y <= Downstream) <=>
               \E k \in 1..Len(circle) :
                 /\ Val(circle[k][1]) = x /\ Val(circle[k][2]) = y
                 /\ i \in Evidence(x, y)

\* a counted split read beside one with a companion of exactly min_overhang
\* matched bases, a supplementary record and a companion on another contig
C12_Witness ==
  /\ pcM = "extracted"
  /\ min_junctions = 0
  /\ \E k \in 1..Len(circle) : Val(circle[k][3]) = 1
  /\ \E i \in 1..Len(FetchedReads) :
       /\ FetchedReads[i].SA # <<>>
       /\ MatchLen(FetchedReads[i].cigar) > MinOverhang
       /\ MatchLen(FetchedReads[i].SA[1].cigar) = MinOverhang
  /\ \E i \in 1..Len(FetchedReads) : FetchedReads[i].is_supplementary
  /\ \E i \in 1..Len(FetchedReads) :
       FetchedReads[i].SA # <<>> /\ FetchedReads[i].SA[1].rname # FetchedReads[i].reference_name

\* ---------------------------------------------------------------------
\* Properties of main
\* ---------------------------------------------------------------------
\* the file holds the contig under one of the two names
ContigFound(bam) ==
  \/ chromosome \in bam.contigs
  \/ ~HasChr(chromosome) /\ AddChr(chromosome) \in bam.contigs
  \/ HasChr(chromosome) /\ StripChr(chromosome) \in bam.contigs

\* C5: when the contig is missing from one sample's file under both names,
\* only that sample fails: every other sample of the run, those after it
\* included, is processed and appended.
C5_OtherSamplesProcessed ==
  pcM \in {"plot", "exit", "ValueError"} =>
    Len(samples) = Cardinality({j \in 1..Len(bams) : ContigFound(bams[j])})

\* start and stop of the events, in order
Ends(events) == [k \in 1..Len(events) |-> <<events[k][1].n, events[k][2].n>>]

\* C6: with a factor of 0 or less the run goes on without rescaling: the
\* exon list handed to plotting is the original one and every canonical and
\* circular event handed to plotting has the start and stop of extraction.
C6_NonPositiveFactorSkipsRescaling ==
  [][(factor # None /\ factor.n <= 0) =>
       /\ pcM = "scale" => pcM' = "loop"
       /\ (pcM = "loop" /\ pcM' = "plot") => exon_coordinates' = exon_coordinates
       /\ (pcM = "loop" /\ Len(samples') = Len(samples) + 1) =>
            LET bam == bams[Len(samples')]
            IN  /\ Ends(samples'[Len(samples')].canonical)
                     = Ends(Events(junctions(bam, chromosome, Upstream, Downstream,
                                             min_junctions, new_strand, rev).events))
                /\ Ends(samples'[Len(samples')].circle)
                     = Ends(Events(circles(bam, chromosome, Upstream, Downstream, MinOverhang,
                                           CircleMinCount, new_strand, rev).events))]_vars

\* C9: args.filter gates both kinds of junction: a canonical and a circular
\* junction inside the window are handed to plotting exactly when their
\* count is at least the filter value.
C9_FilterGatesBothKinds ==
  pcM = "loop" =>
    \A k \in 1..Len(samples) :
      LET reads == FetchedOf(bams[k])
          pass(key, n) == key[1] >= Upstream /\ key[2] <= Downstream /\ n >= min_junctions
      IN  /\ Len(samples[k].canonical)
               = Cardinality({key \in IntronKeysIn(reads) :
                                pass(key, IntronCountIn(reads, key[1], key[2]))})
          /\ Len(samples[k].circle)
               = Cardinality({key \in CircKeysIn(reads) :
                                pass(key, CircCountIn(reads, key[1], key[2]))})

\* C10: reducing by a larger divisor never gives a larger count, a divisor
\* of 1 or more never raises a count, every event of the batch is reduced
\* (to the floor of count / divisor) and start and stop are kept.
C10_ReductionMonotonic ==
  [][(pcM = "reduce" /\ pcM' = "reduced") =>
       /\ Ends(canonical') = Ends(canonical) /\ Ends(circle') = Ends(circle)
       /\ \A k \in 1..Len(canonical) :
            /\ (Truthy(reduce_canonical) /\ reduce_canonical.n > 0) =>
                 /\ Val(canonical'[k][3]) * reduce_canonical.n <= canonical[k][3].n
                 /\ canonical[k][3].n < (Val(canonical'[k][3]) + 1) * reduce_canonical.n
                 /\ canonical'[k][3].n = Val(canonical'[k][3]) * Unit
            /\ (Truthy(reduce_backsplice) /\ reduce_backsplice.n > 0) =>
                 /\ Val(circle'[k][3]) * reduce_backsplice.n <= circle[k][3].n
                 /\ circle[k][3].n < (Val(circle'[k][3]) + 1) * reduce_backsplice.n
            /\ (0 < reduce_canonical.n /\ reduce_canonical.n <= reduce_backsplice.n) =>
                 circle'[k][3].n <= canonical'[k][3].n
            /\ reduce_canonical.n >= Unit => canonical'[k][3].n <= canonical[k][3].n
            /\ reduce_backsplice.n >= Unit => circle'[k][3].n <= circle[k][3].n]_vars

C10_Witness ==
  /\ pcM = "reduced"
  /\ 0 < reduce_canonical.n /\ reduce_canonical.n < reduce_backsplice.n
  /\ \E k \in 1..Len(canonical) :
       circle[k][3].n < canonical[k][3].n /\ canonical[k][3].n > 0

\* C16: rescaling keeps the topology of the junctions: for a sorted,
\* disjoint exon list, a factor > 0 (below 1 included) and an event with
\* transcript_start <= start <= stop <= transcript_stop, scale_coords gives
\* scaled start <= scaled stop, both inside the scaled transcript span
\* [first scaled start, last scaled stop], and it keeps the count of every
\* event and the number and the order of the events.
C16_RescalingKeepsTopology ==
  [][(pcM = "loop" /\ pcM' = "rescaled" /\ factor.n > 0) =>
       /\ Len(canonical') = Len(canonical)
       /\ \A k \in 1..Len(canonical) :
            /\ canonical'[k][3] = canonical[k][3]
            /\ (/\ Upstream * Unit <= canonical[k][1].n
                /\ canonical[k][1].n <= canonical[k][2].n
                /\ canonical[k][2].n <= Downstream * Unit) =>
                 /\ canonical'[k][1].n <= canonical'[k][2].n
                 /\ scaled_coords[1][1].n <= canonical'[k][1].n
                 /\ canonical'[k][2].n <= scaled_coords[Len(scaled_coords)][2].n]_vars

====
